---- MODULE Spec2Model ----
(***************************************************************************)
(* A model of the 3-style algorithm lookup page (src/app.js): the TSV      *)
(* parser, the localStorage cache, the refresh protocol (fetchData), the   *)
(* startup (init) and the lookup / switch / clear handlers.                *)
(*                                                                         *)
(* Text is a sequence of one-character strings.  JavaScript values are     *)
(* records [t, v]: t is the type tag and v the content, always a sequence. *)
(*                                                                         *)
(* One step of the model is one run of JavaScript code between two         *)
(* suspension points: an event listener, or fetchData from one await to    *)
(* the next.  The content of the text box and its timer, the focus, the    *)
(* label of the switch button and the dark mode are not part of the state: *)
(* the program reads none of them back; what the input listener reads is   *)
(* the parameter of InputEvent.  The dash and the bullet of the status     *)
(* texts are written "-" and "*".                                          *)
(***************************************************************************)
EXTENDS Integers, Sequences, FiniteSets, TLC

(***************************************************************************)
(* JavaScript values                                                       *)
(***************************************************************************)
Undefined == [t |-> "undefined", v |-> <<>>]
Null == [t |-> "null", v |-> <<>>]
Num(n) == [t |-> "number", v |-> <<n>>]
Str(s) == [t |-> "string", v |-> s]
Arr(es) == [t |-> "array", v |-> es]
\* an object is the sequence of its own properties [k, v], in insertion order
Obj(ps) == [t |-> "object", v |-> ps]

Prop(k, val) == [k |-> k, v |-> val]

\* ToBoolean
Truthy(x) ==
  CASE x.t = "undefined" -> FALSE
    [] x.t = "null" -> FALSE
    [] x.t = "number" -> x.v[1] # 0
    [] x.t = "string" -> x.v # <<>>
    [] OTHER -> TRUE

\* own property names of an object, as a set
Keys(o) == {o.v[i].k : i \in 1..Len(o.v)}

HasProp(o, k) == o.t = "object" /\ k \in Keys(o)

PropIndex(o, k) == CHOOSE i \in 1..Len(o.v) : o.v[i].k = k

\* x[k] for a property name k (a text); reading a property of undefined or
\* null throws, which the callers test with Throws first
GetProp(x, k) ==
  CASE x.t = "object" -> IF k \in Keys(x) THEN x.v[PropIndex(x, k)].v ELSE Undefined
    [] x.t \in {"array", "string"} ->
         IF k = <<"l", "e", "n", "g", "t", "h">> THEN Num(Len(x.v)) ELSE Undefined
    [] OTHER -> Undefined

\* x[0]
First(x) ==
  CASE x.t = "array" -> IF Len(x.v) > 0 THEN x.v[1] ELSE Undefined
    [] x.t = "string" -> IF Len(x.v) > 0 THEN Str(<<x.v[1]>>) ELSE Undefined
    [] OTHER -> Undefined

\* a property read of x throws a TypeError
Throws(x) == x.t \in {"undefined", "null"}

\* o[k] = val
SetProp(o, k, val) ==
  IF k \in Keys(o)
    THEN Obj([o.v EXCEPT ![PropIndex(o, k)] = Prop(k, val)])
    ELSE Obj(Append(o.v, Prop(k, val)))

\* a.push(e)
Push(a, e) == Arr(Append(a.v, e))

(***************************************************************************)
(* Strings                                                                 *)
(***************************************************************************)
TAB == "\t"
LF == "\n"
CR == "\r"
SP == " "

SetMin(S) == CHOOSE x \in S : \A y \in S : x <= y
SetMax(S) == CHOOSE x \in S : \A y \in S : y <= x

LowerLetters == <<"a", "b", "c", "d", "e", "f", "g", "h", "i", "j", "k", "l", "m",
                  "n", "o", "p", "q", "r", "s", "t", "u", "v", "w", "x", "y", "z">>
UpperLetters == <<"A", "B", "C", "D", "E", "F", "G", "H", "I", "J", "K", "L", "M",
                  "N", "O", "P", "Q", "R", "S", "T", "U", "V", "W", "X", "Y", "Z">>

UpperChar(c) ==
  IF \E i \in 1..Len(LowerLetters) : LowerLetters[i] = c
    THEN UpperLetters[CHOOSE i \in 1..Len(LowerLetters) : LowerLetters[i] = c]
    ELSE c

\* String.prototype.toUpperCase
ToUpperCase(s) == [i \in 1..Len(s) |-> UpperChar(s[i])]

\* the characters String.prototype.trim strips
IsSpace(c) == c \in {SP, TAB, LF, CR}

\* String.prototype.trim
Trim(s) ==
  LET keep == {i \in 1..Len(s) : ~IsSpace(s[i])}
  IN IF keep = {} THEN <<>> ELSE SubSeq(s, SetMin(keep), SetMax(keep))

\* String.prototype.split with a one-character separator
RECURSIVE Split(_, _)
Split(s, sep) ==
  LET at == {i \in 1..Len(s) : s[i] = sep}
  IN IF at = {} THEN <<s>>
     ELSE <<SubSeq(s, 1, SetMin(at) - 1)>>
            \o Split(SubSeq(s, SetMin(at) + 1, Len(s)), sep)

\* variant: only a carriage return that ends the line is removed
StripTrailingCR(line) ==
  IF line # <<>> /\ line[Len(line)] = CR THEN SubSeq(line, 1, Len(line) - 1) ELSE line

\* line.replace(/\r/g, "")
StripCR(line) == SelectSeq(line, LAMBDA c : c # CR)

(***************************************************************************)
(* parseTSV                                                                *)
(***************************************************************************)
\* the column assignment: <<value1, key, value2>>
Columns(cols) ==
  IF Len(cols) >= 3
    THEN <<Trim(cols[1]), ToUpperCase(Trim(cols[2])), Trim(cols[3])>>
    ELSE <<<<>>, ToUpperCase(Trim(cols[1])), Trim(cols[2])>>

\* "Require key + value2"
Accepted(key, value2) == key # <<>> /\ Len(key) = 2 /\ value2 # <<>>

\* AddEntry with a fault: the entry replaces the key's earlier entries
AddEntryReplace(out, key, value1, value2) ==
  SetProp(out, key, Arr(<<Arr(<<Str(value1), Str(value2)>>)>>))

\* out[key].push([value1, value2]), creating out[key] when it is missing
AddEntry(out, key, value1, value2) ==
  LET cur == IF HasProp(out, key) /\ Truthy(GetProp(out, key))
               THEN GetProp(out, key) ELSE Arr(<<>>)
  IN SetProp(out, key, Push(cur, Arr(<<Str(value1), Str(value2)>>)))

\* one iteration of the loop over the lines
ParseLine(out, rawLine) ==
  LET line == StripCR(rawLine)
      cols == Split(line, TAB)
      c == Columns(cols)
  IN IF Trim(line) = <<>> THEN out
     ELSE IF Len(cols) < 2 THEN out
     ELSE IF ~Accepted(c[2], c[3]) THEN out
     ELSE AddEntry(out, c[2], c[1], c[3])

RECURSIVE ParseLines(_, _)
ParseLines(out, lines) ==
  IF lines = <<>> THEN out
  ELSE ParseLines(ParseLine(out, Head(lines)), Tail(lines))

parseTSV(text) == ParseLines(Obj(<<>>), Split(text, LF))

(***************************************************************************)
(* JSON text: a sequence of tokens [k, s]; k is the kind of token and s    *)
(* the characters of a string or number literal                            *)
(***************************************************************************)
Tok(k, s) == [k |-> k, s |-> s]
Punct(k) == Tok(k, <<>>)

DigitChars == <<"0", "1", "2", "3", "4", "5", "6", "7", "8", "9">>

\* the decimal digits of a natural number
RECURSIVE Digits(_)
Digits(n) ==
  IF n < 10 THEN <<DigitChars[n + 1]>>
  ELSE Append(Digits(n \div 10), DigitChars[(n % 10) + 1])

DigitValue(c) == (CHOOSE i \in 1..10 : DigitChars[i] = c) - 1

RECURSIVE ToNumber(_)
ToNumber(ds) ==
  IF Len(ds) = 1 THEN DigitValue(ds[1])
  ELSE 10 * ToNumber(SubSeq(ds, 1, Len(ds) - 1)) + DigitValue(ds[Len(ds)])

\* JSON.stringify: a property whose value is undefined is left out, an
\* undefined array element is written as null
RECURSIVE Stringify(_), StringifyElems(_), StringifyMembers(_, _)
\* variant: a falsy (empty) string is written as null
StringifyEmptyAsNull(x) ==
  CASE x.t = "number" -> <<Tok("num", Digits(x.v[1]))>>
    [] x.t = "string" -> IF x.v = <<>> THEN <<Punct("null")>> ELSE <<Tok("str", x.v)>>
    [] x.t = "array" -> <<Punct("[")>> \o StringifyElems(x.v) \o <<Punct("]")>>
    [] x.t = "object" -> <<Punct("{")>> \o StringifyMembers(x.v, TRUE) \o <<Punct("}")>>
    [] OTHER -> <<Punct("null")>>

Stringify(x) ==
  CASE x.t = "number" -> <<Tok("num", Digits(x.v[1]))>>
    [] x.t = "string" -> <<Tok("str", x.v)>>
    [] x.t = "array" -> <<Punct("[")>> \o StringifyElems(x.v) \o <<Punct("]")>>
    [] x.t = "object" -> <<Punct("{")>> \o StringifyMembers(x.v, TRUE) \o <<Punct("}")>>
    [] OTHER -> <<Punct("null")>>

StringifyElems(es) ==
  IF es = <<>> THEN <<>>
  ELSE Stringify(Head(es))
         \o (IF Len(es) > 1 THEN <<Punct(",")>> \o StringifyElems(Tail(es)) ELSE <<>>)

StringifyMembers(ps, first) ==
  IF ps = <<>> THEN <<>>
  ELSE IF Head(ps).v.t = "undefined" THEN StringifyMembers(Tail(ps), first)
  ELSE (IF first THEN <<>> ELSE <<Punct(",")>>)
         \o <<Tok("str", Head(ps).k), Punct(":")>> \o Stringify(Head(ps).v)
         \o StringifyMembers(Tail(ps), FALSE)

JSONStringify(x) == Stringify(x)

\* JSON.parse: [ok, val, rest]; ok is FALSE where JSON.parse throws
ParseFail == [ok |-> FALSE, val |-> Undefined, rest |-> <<>>]
Parsed(val, rest) == [ok |-> TRUE, val |-> val, rest |-> rest]

RECURSIVE ParseValue(_), ParseElems(_, _), ParseMembers(_, _)
ParseValue(ts) ==
  IF ts = <<>> THEN ParseFail
  ELSE LET h == Head(ts)
           r == Tail(ts)
       IN CASE h.k = "null" -> Parsed(Null, r)
            [] h.k = "num" -> Parsed(Num(ToNumber(h.s)), r)
            [] h.k = "str" -> Parsed(Str(h.s), r)
            [] h.k = "[" -> IF r # <<>> /\ Head(r).k = "]"
                              THEN Parsed(Arr(<<>>), Tail(r))
                              ELSE ParseElems(<<>>, r)
            [] h.k = "{" -> IF r # <<>> /\ Head(r).k = "}"
                              THEN Parsed(Obj(<<>>), Tail(r))
                              ELSE ParseMembers(Obj(<<>>), r)
            [] OTHER -> ParseFail

ParseElems(acc, ts) ==
  LET e == ParseValue(ts)
  IN IF ~e.ok \/ e.rest = <<>> THEN ParseFail
     ELSE IF Head(e.rest).k = "]" THEN Parsed(Arr(Append(acc, e.val)), Tail(e.rest))
     ELSE IF Head(e.rest).k = "," THEN ParseElems(Append(acc, e.val), Tail(e.rest))
     ELSE ParseFail

ParseMembers(obj, ts) ==
  IF Len(ts) < 3 \/ ts[1].k # "str" \/ ts[2].k # ":" THEN ParseFail
  ELSE LET e == ParseValue(SubSeq(ts, 3, Len(ts)))
       IN IF ~e.ok \/ e.rest = <<>> THEN ParseFail
          ELSE IF Head(e.rest).k = "}"
                 THEN Parsed(SetProp(obj, ts[1].s, e.val), Tail(e.rest))
          ELSE IF Head(e.rest).k = ","
                 THEN ParseMembers(SetProp(obj, ts[1].s, e.val), Tail(e.rest))
          ELSE ParseFail

JSONParse(raw) ==
  LET e == ParseValue(raw)
  IN IF e.ok /\ e.rest = <<>> THEN e ELSE ParseFail

(***************************************************************************)
(* String conversion in a template literal                                 *)
(***************************************************************************)
RECURSIVE ToStr(_), JoinStr(_)
ToStr(x) ==
  CASE x.t = "string" -> x.v
    [] x.t = "number" -> Digits(x.v[1])
    [] x.t = "undefined" -> <<"u", "n", "d", "e", "f", "i", "n", "e", "d">>
    [] x.t = "null" -> <<"n", "u", "l", "l">>
    [] x.t = "array" -> JoinStr(x.v)
    [] OTHER -> <<"[", "o", "b", "j", "e", "c", "t", " ", "O", "b", "j", "e", "c", "t", "]">>

JoinStr(es) ==
  IF es = <<>> THEN <<>>
  ELSE (IF Head(es).t \in {"undefined", "null"} THEN <<>> ELSE ToStr(Head(es)))
         \o (IF Len(es) > 1 THEN <<",">> \o JoinStr(Tail(es)) ELSE <<>>)

(***************************************************************************)
(* CONFIG                                                                  *)
(***************************************************************************)
CACHE_TIME == 86400000

\* the two sheets of URLS
Categories == {"corner", "edge"}
Other(c) == IF c = "corner" THEN "edge" ELSE "corner"

\* the property names of the cached payload
K_time == <<"t", "i", "m", "e">>
K_timeText == <<"t", "i", "m", "e", "T", "e", "x", "t">>
K_corner == <<"c", "o", "r", "n", "e", "r">>
K_edge == <<"e", "d", "g", "e">>
K_length == <<"l", "e", "n", "g", "t", "h">>

(***************************************************************************)
(* Bounds and inputs                                                       *)
(***************************************************************************)
\* how many times the clock advances, and by how many milliseconds
MaxTicks == 1
TickMs == 700
\* retrievals of an ended refresh that are still outstanding
MaxAbandoned == 1
\* Date.prototype.toLocaleString renders a time to the second
DisplayMs == 1000

\* Date.now() when the page is loaded
StartClock == CACHE_TIME + DisplayMs

\* what the two sheets can answer
CornerBodies ==
  { <<"n", TAB, "a", "a", TAB, "v", CR, LF, "a", "A", TAB, "w", LF>>,
    <<"b", "b", TAB, "x", SP, LF, "q", TAB, "y", LF>> }
EdgeBodies ==
  { <<SP, TAB, "a", "a", TAB, "e", LF, LF, TAB, "z", LF>> }

\* what the user can have in the text box at an input event
TypedTexts == { <<"a", "a">>, <<"b", "b", "c">>, <<"q">> }

(***************************************************************************)
(* CACHE                                                                   *)
(***************************************************************************)
\* new Date().toLocaleString()
toLocaleString(now) == Digits(now \div DisplayMs)

payload(corner, edge, now) ==
  Obj(<< Prop(K_time, Num(now)),
         Prop(K_timeText, Str(toLocaleString(now))),
         Prop(K_corner, corner),
         Prop(K_edge, edge) >>)

\* localStorage[CACHE_KEY]: present is FALSE when there is no item
NoItem == [present |-> FALSE, raw |-> <<>>]
Item(raw) == [present |-> TRUE, raw |-> raw]

\* the item saveCache stores
saveCache(corner, edge, now) == Item(JSONStringify(payload(corner, edge, now)))

loadCache(ls) ==
  IF ~ls.present \/ ls.raw = <<>> THEN Null
  ELSE LET p == JSONParse(ls.raw)
       IN IF p.ok THEN p.val ELSE Null

(***************************************************************************)
(* The status line and the result card                                     *)
(***************************************************************************)
\* `Last: ${timeText}`
LastInfo(timeText) == <<"L", "a", "s", "t", ":", " ">> \o ToStr(timeText)

\* status.textContent: the message, then the bullet (written "*" here) and
\* the cache information when given
updateStatus(msg, cacheInfo) ==
  IF cacheInfo # <<>> THEN <<msg, "*", cacheInfo>> ELSE <<msg>>

NoCard == <<>>
Element(cls, text) == [cls |-> cls, text |-> text]

\* the card of lookup: the key, the note when there is one, the value
Card(key, value1, value2) ==
  <<Element("card-key", key)>>
    \o (IF Truthy(value1) THEN <<Element("card-note", ToStr(value1))>> ELSE <<>>)
    \o <<Element("card-value2", ToStr(value2))>>

(***************************************************************************)
(* State                                                                   *)
(***************************************************************************)
VARIABLES
  dataCorner,       \* let dataCorner
  dataEdge,         \* let dataEdge
  active,           \* let active
  statusText,       \* status.textContent
  result,           \* the content of the result element
  refreshDisabled,  \* refreshBtn.disabled
  localStorage,     \* the item stored under CACHE_KEY
  clock,            \* Date.now()
  ticks,            \* how often the clock has advanced
  phase,            \* "boot", "initFetch" (init between its status and fetchData), "running"
  pc,               \* where fetchData is suspended, or "idle"
  net,              \* per sheet, the fetch promise: "none", "pending", "ok", "notok"
  cornerText,       \* const cornerText, once read
  abandoned,        \* outstanding retrievals of refreshes that have ended
  inFlight,         \* calls of fetchData that have not returned
  issued,           \* who issued the latest retrievals: "none", "init", "user"
  origin,           \* what init did: "none", "cache", "fetch"
  atStart,          \* the two indices and the item when the current refresh started
  ev,               \* the last step of the program
  text,             \* the text under parse (the parser's specification)
  grown             \* how many characters have been appended to text

vars == <<dataCorner, dataEdge, active, statusText, result, refreshDisabled,
          localStorage, clock, ticks, phase, pc, net, cornerText, abandoned,
          inFlight, issued, origin, atStart, ev, text, grown>>

NoNet == [corner |-> "none", edge |-> "none"]

\* a step of the program: op is the operation; for the return of fetchData,
\* corner and edge are how the two retrievals ended ("ok", "notok",
\* "rejected", "bodyfail", or "pending"/"unread" when fetchData did not wait
\* for them), save is "stored" or "quota", texts the two bodies, before the
\* indices and the item when the refresh started, at the time of the step;
\* for lookup, key is the key; threw says that an error left the operation
Ev(op, n, save, texts, before, at, key, threw) ==
  [op |-> op, corner |-> n.corner, edge |-> n.edge, save |-> save,
   texts |-> texts, before |-> before, at |-> at, key |-> key, threw |-> threw]

UiEv(op, key, threw) == Ev(op, NoNet, "-", <<>>, <<>>, 0, key, threw)

(***************************************************************************)
(* What a previous session or somebody else can have left in localStorage  *)
(***************************************************************************)
\* snapshots an earlier run of the program saved
OldSnapshots ==
  { saveCache(parseTSV(<<"n", TAB, "a", "a", TAB, "v", CR, LF, "a", "A", TAB, "w", LF>>),
              parseTSV(<<SP, TAB, "a", "a", TAB, "e", LF, LF, TAB, "z", LF>>), 0),
    saveCache(parseTSV(<<"b", "b", TAB, "x", SP, LF, "q", TAB, "y", LF>>),
              parseTSV(<<>>), StartClock - TickMs) }

\* payloads that are no snapshot: the empty string, a cut-off text, null,
\* an object without the fields, a number, and a snapshot-shaped object
\* whose corner index has a one-letter lower-case key with an empty value
\* and a key without entries
CorruptItems ==
  { Item(<<>>),
    Item(<<Punct("{"), Tok("str", K_time), Punct(":")>>),
    Item(<<Punct("null")>>),
    Item(<<Punct("{"), Punct("}")>>),
    Item(<<Tok("num", <<"7">>)>>),
    Item(JSONStringify(payload(
           Obj(<<Prop(<<"a">>, Arr(<<Arr(<<Str(<<>>), Str(<<>>)>>)>>)),
                 Prop(<<"A", "A">>, Arr(<<>>))>>),
           Obj(<<>>), 0))) }

Init ==
  /\ dataCorner = Obj(<<>>)
  /\ dataEdge = Obj(<<>>)
  /\ active = "corner"
  /\ statusText = <<>>
  /\ result = NoCard
  /\ refreshDisabled = FALSE
  /\ localStorage \in {NoItem} \cup OldSnapshots \cup CorruptItems
  /\ clock = StartClock
  /\ ticks = 0
  /\ phase = "boot"
  /\ pc = "idle"
  /\ net = NoNet
  /\ cornerText = <<>>
  /\ abandoned = 0
  /\ inFlight = 0
  /\ issued = "none"
  /\ origin = "none"
  /\ atStart = <<>>
  /\ ev = UiEv("none", <<>>, FALSE)
  /\ text = <<>>
  /\ grown = 0

(***************************************************************************)
(* fetchData                                                               *)
(***************************************************************************)
\* catchBlock with a fault: the indices stay as they are when a cache exists
catchBlockKeeps(cache, dc, de) ==
  IF Truthy(cache)
    THEN [threw |-> FALSE, corner |-> dc, edge |-> de,
          status |-> updateStatus("Offline - using cache",
                                  LastInfo(GetProp(cache, K_timeText)))]
    ELSE [threw |-> FALSE, corner |-> dc, edge |-> de,
          status |-> updateStatus("No data available", <<>>)]

\* catchBlock with a fault: the two indices of the cache are exchanged
catchBlockSwapped(cache, dc, de) ==
  IF Truthy(cache)
    THEN [threw |-> FALSE,
          corner |-> GetProp(cache, K_edge),
          edge |-> GetProp(cache, K_corner),
          status |-> updateStatus("Offline - using cache",
                                  LastInfo(GetProp(cache, K_timeText)))]
    ELSE [threw |-> FALSE, corner |-> dc, edge |-> de,
          status |-> updateStatus("No data available", <<>>)]

\* catchBlock with a fault: the indices are taken from the cache before the
\* test "if (cache)", as cache?.corner and cache?.edge
catchBlockAdoptsFirst(cache, dc, de) ==
  IF Truthy(cache)
    THEN [threw |-> FALSE,
          corner |-> GetProp(cache, K_corner),
          edge |-> GetProp(cache, K_edge),
          status |-> updateStatus("Offline - using cache",
                                  LastInfo(GetProp(cache, K_timeText)))]
    ELSE [threw |-> FALSE, corner |-> Undefined, edge |-> Undefined,
          status |-> updateStatus("No data available", <<>>)]

\* catchBlock with a fault: the cache is read without the test "if (cache)"
catchBlockNoGuard(cache, dc, de) ==
  IF Throws(cache)
    THEN [threw |-> TRUE, corner |-> dc, edge |-> de, status |-> <<>>]
    ELSE [threw |-> FALSE,
          corner |-> GetProp(cache, K_corner),
          edge |-> GetProp(cache, K_edge),
          status |-> updateStatus("Offline - using cache",
                                  LastInfo(GetProp(cache, K_timeText)))]

\* the catch block: [threw, corner, edge, status] from what loadCache
\* returned and the two indices as they are; threw says that the block
\* itself raised, so that the error leaves fetchData
catchBlock(cache, dc, de) ==
  IF Truthy(cache)
    THEN [threw |-> FALSE,
          corner |-> GetProp(cache, K_corner),
          edge |-> GetProp(cache, K_edge),
          status |-> updateStatus("Offline - using cache",
                                  LastInfo(GetProp(cache, K_timeText)))]
    ELSE [threw |-> FALSE, corner |-> dc, edge |-> de,
          status |-> updateStatus("No data available", <<>>)]

\* tryBlock with a fault: saveCache is called with the indices exchanged
tryBlockSaveSwapped(cText, eText, ls, now, canStore) ==
  LET dc == parseTSV(cText)
      de == parseTSV(eText)
      saved == saveCache(de, dc, now)
      cache == loadCache(saved)
  IN IF ~canStore
       THEN [threw |-> TRUE, corner |-> dc, edge |-> de, ls |-> ls, status |-> <<>>]
     ELSE IF Throws(cache)
       THEN [threw |-> TRUE, corner |-> dc, edge |-> de, ls |-> saved, status |-> <<>>]
     ELSE [threw |-> FALSE, corner |-> dc, edge |-> de, ls |-> saved,
           status |-> updateStatus("Updated", LastInfo(GetProp(cache, K_timeText)))]

\* tryBlock with a fault: the cache is loaded before it is saved
tryBlockStaleInfo(cText, eText, ls, now, canStore) ==
  LET dc == parseTSV(cText)
      de == parseTSV(eText)
      saved == saveCache(dc, de, now)
      cache == loadCache(ls)
  IN IF ~canStore
       THEN [threw |-> TRUE, corner |-> dc, edge |-> de, ls |-> ls, status |-> <<>>]
     ELSE IF Throws(cache)
       THEN [threw |-> TRUE, corner |-> dc, edge |-> de, ls |-> saved, status |-> <<>>]
     ELSE [threw |-> FALSE, corner |-> dc, edge |-> de, ls |-> saved,
           status |-> updateStatus("Updated", LastInfo(GetProp(cache, K_timeText)))]

\* the try block from the two texts on: [threw, corner, edge, ls, status];
\* canStore is FALSE when localStorage.setItem throws (the quota is used up)
tryBlock(cText, eText, ls, now, canStore) ==
  LET dc == parseTSV(cText)
      de == parseTSV(eText)
      saved == saveCache(dc, de, now)
      cache == loadCache(saved)
  IN IF ~canStore
       THEN [threw |-> TRUE, corner |-> dc, edge |-> de, ls |-> ls, status |-> <<>>]
     ELSE IF Throws(cache)
       THEN [threw |-> TRUE, corner |-> dc, edge |-> de, ls |-> saved, status |-> <<>>]
     ELSE [threw |-> FALSE, corner |-> dc, edge |-> de, ls |-> saved,
           status |-> updateStatus("Updated", LastInfo(GetProp(cache, K_timeText)))]

\* variant: no finally block, the button stays as the try block left it
finallyMissing == TRUE

\* finally: refreshBtn.disabled
finallyDisabled == FALSE

\* fetchData returns: the indices, the status and the item it leaves, and
\* what the step was
Return(corner, edge, status, ls, e) ==
  /\ dataCorner' = corner
  /\ dataEdge' = edge
  /\ statusText' = status
  /\ localStorage' = ls
  /\ refreshDisabled' = finallyDisabled
  /\ pc' = "idle"
  /\ net' = NoNet
  /\ cornerText' = <<>>
  /\ inFlight' = inFlight - 1
  /\ atStart' = <<>>
  /\ ev' = e
  /\ UNCHANGED <<active, result, clock, ticks, phase, issued, origin, text, grown>>

\* variant: the catch block removes the item before it looks for a cache
CaughtRemoves(dc, de, ls, n, save, texts) ==
  LET f == catchBlock(loadCache(NoItem), dc, de)
  IN Return(f.corner, f.edge,
            IF f.threw THEN statusText ELSE f.status,
            NoItem, Ev("fetchData", n, save, texts, atStart, clock, <<>>, f.threw))

\* the catch block runs with the indices dc, de and the item ls, then finally
Caught(dc, de, ls, n, save, texts) ==
  LET f == catchBlock(loadCache(ls), dc, de)
  IN Return(f.corner, f.edge,
            IF f.threw THEN statusText ELSE f.status,
            ls, Ev("fetchData", n, save, texts, atStart, clock, <<>>, f.threw))

\* the first lines of fetchData, up to the await of Promise.all
Start(who) ==
  /\ statusText' = updateStatus("Updating...", <<>>)
  /\ refreshDisabled' = TRUE
  /\ net' = [corner |-> "pending", edge |-> "pending"]
  /\ pc' = "awaitAll"
  /\ inFlight' = inFlight + 1
  /\ issued' = who
  /\ atStart' = <<dataCorner, dataEdge, localStorage>>
  /\ ev' = UiEv("start", <<>>, FALSE)
  /\ UNCHANGED <<dataCorner, dataEdge, active, result, localStorage, clock, ticks,
                 cornerText, abandoned, origin, text, grown>>

\* variant: the click starts a refresh whether the button is disabled or not
RefreshClickAlways ==
  /\ phase = "running"
  /\ abandoned < MaxAbandoned
  /\ Start("user")
  /\ UNCHANGED phase

\* the click listener of refreshBtn; a disabled button raises no click
RefreshClick ==
  /\ phase = "running"
  /\ ~refreshDisabled
  /\ abandoned < MaxAbandoned
  /\ Start("user")
  /\ UNCHANGED phase

\* variant: the first retrieval that fails in any way ends the wait, a
\* response that is not ok included
FetchSettleRace(c, o) ==
  /\ pc = "awaitAll"
  /\ net[c] = "pending"
  /\ LET n == [net EXCEPT ![c] = o]
     IN IF o \in {"rejected", "notok"}
          THEN /\ Caught(dataCorner, dataEdge, localStorage, n, "-", <<>>)
               /\ abandoned' = abandoned + (IF net[Other(c)] = "pending" THEN 1 ELSE 0)
        ELSE IF n[Other(c)] = "pending"
          THEN /\ net' = n
               /\ UNCHANGED <<dataCorner, dataEdge, active, statusText, result,
                              refreshDisabled, localStorage, clock, ticks, phase, pc,
                              cornerText, abandoned, inFlight, issued, origin,
                              atStart, ev, text, grown>>
        ELSE /\ net' = n
             /\ pc' = "awaitCornerText"
             /\ UNCHANGED <<dataCorner, dataEdge, active, statusText, result,
                            refreshDisabled, localStorage, clock, ticks, phase,
                            cornerText, abandoned, inFlight, issued, origin,
                            atStart, ev, text, grown>>

\* a fetch promise is fulfilled with a response (ok or not) or is rejected.
\* Promise.all is rejected with the first rejection and fulfilled when both
\* are fulfilled; the code after the await runs before any other event.
FetchSettle(c, o) ==
  /\ pc = "awaitAll"
  /\ net[c] = "pending"
  /\ LET n == [net EXCEPT ![c] = o]
     IN IF o = "rejected"
          THEN /\ Caught(dataCorner, dataEdge, localStorage, n, "-", <<>>)
               /\ abandoned' = abandoned + (IF net[Other(c)] = "pending" THEN 1 ELSE 0)
        ELSE IF n[Other(c)] = "pending"
          THEN /\ net' = n
               /\ UNCHANGED <<dataCorner, dataEdge, active, statusText, result,
                              refreshDisabled, localStorage, clock, ticks, phase, pc,
                              cornerText, abandoned, inFlight, issued, origin,
                              atStart, ev, text, grown>>
        ELSE IF n.corner = "ok" /\ n.edge = "ok"
          THEN /\ net' = n
               /\ pc' = "awaitCornerText"
               /\ UNCHANGED <<dataCorner, dataEdge, active, statusText, result,
                              refreshDisabled, localStorage, clock, ticks, phase,
                              cornerText, abandoned, inFlight, issued, origin,
                              atStart, ev, text, grown>>
        ELSE /\ Caught(dataCorner, dataEdge, localStorage, n, "-", <<>>)
             /\ UNCHANGED abandoned

\* variant: dataCorner = parseTSV(await cornerRes.text()), the corner index
\* is assigned before the edge body is awaited
CornerTextReadAssigns(body) ==
  /\ pc = "awaitCornerText"
  /\ cornerText' = body
  /\ dataCorner' = parseTSV(body)
  /\ pc' = "awaitEdgeText"
  /\ UNCHANGED <<dataEdge, active, statusText, result, refreshDisabled,
                 localStorage, clock, ticks, phase, net, abandoned, inFlight, issued,
                 origin, atStart, ev, text, grown>>

\* await cornerRes.text() gives the body
CornerTextRead(body) ==
  /\ pc = "awaitCornerText"
  /\ cornerText' = body
  /\ pc' = "awaitEdgeText"
  /\ UNCHANGED <<dataCorner, dataEdge, active, statusText, result, refreshDisabled,
                 localStorage, clock, ticks, phase, net, abandoned, inFlight, issued,
                 origin, atStart, ev, text, grown>>

\* await cornerRes.text() is rejected: the body could not be read
CornerTextFail ==
  /\ pc = "awaitCornerText"
  /\ Caught(dataCorner, dataEdge, localStorage,
            [corner |-> "bodyfail", edge |-> "unread"], "-", <<>>)
  /\ UNCHANGED abandoned

\* await edgeRes.text() gives the body: the rest of the try block
EdgeTextRead(body, canStore) ==
  /\ pc = "awaitEdgeText"
  /\ LET r == tryBlock(cornerText, body, localStorage, clock, canStore)
         save == IF canStore THEN "stored" ELSE "quota"
     IN IF r.threw
          THEN Caught(r.corner, r.edge, r.ls, net, save, <<cornerText, body>>)
          ELSE Return(r.corner, r.edge, r.status, r.ls,
                      Ev("fetchData", net, save, <<cornerText, body>>, atStart, clock,
                         <<>>, FALSE))
  /\ UNCHANGED abandoned

EdgeTextFail ==
  /\ pc = "awaitEdgeText"
  /\ Caught(dataCorner, dataEdge, localStorage,
            [corner |-> "ok", edge |-> "bodyfail"], "-", <<>>)
  /\ UNCHANGED abandoned

\* a retrieval of an ended refresh settles: nobody awaits it
AbandonedSettle ==
  /\ abandoned > 0
  /\ abandoned' = abandoned - 1
  /\ UNCHANGED <<dataCorner, dataEdge, active, statusText, result, refreshDisabled,
                 localStorage, clock, ticks, phase, pc, net, cornerText, inFlight,
                 issued, origin, atStart, ev, text, grown>>

(***************************************************************************)
(* init                                                                    *)
(***************************************************************************)
\* initBlock with a fault: a cache older than CACHE_TIME is not used
initBlockTTL(cache, now, dc, de) ==
  IF Truthy(cache) /\ GetProp(cache, K_time).t = "number"
       /\ now - GetProp(cache, K_time).v[1] <= CACHE_TIME
    THEN [fetch |-> FALSE,
          corner |-> GetProp(cache, K_corner),
          edge |-> GetProp(cache, K_edge),
          status |-> updateStatus("Loaded from cache",
                                  LastInfo(GetProp(cache, K_timeText)))]
    ELSE [fetch |-> TRUE, corner |-> dc, edge |-> de,
          status |-> updateStatus("No cache - fetching...", <<>>)]

\* the branch of init: [fetch, corner, edge, status]
initBlock(cache, now, dc, de) ==
  IF Truthy(cache)
    THEN [fetch |-> FALSE,
          corner |-> GetProp(cache, K_corner),
          edge |-> GetProp(cache, K_edge),
          status |-> updateStatus("Loaded from cache",
                                  LastInfo(GetProp(cache, K_timeText)))]
    ELSE [fetch |-> TRUE, corner |-> dc, edge |-> de,
          status |-> updateStatus("No cache - fetching...", <<>>)]

\* init() up to the call of fetchData
InitLoad ==
  /\ phase = "boot"
  /\ LET b == initBlock(loadCache(localStorage), clock, dataCorner, dataEdge)
     IN /\ dataCorner' = b.corner
        /\ dataEdge' = b.edge
        /\ statusText' = b.status
        /\ phase' = IF b.fetch THEN "initFetch" ELSE "running"
        /\ origin' = IF b.fetch THEN "fetch" ELSE "cache"
  /\ ev' = UiEv("init", <<>>, FALSE)
  /\ UNCHANGED <<active, result, refreshDisabled, localStorage, clock, ticks, pc, net,
                 cornerText, abandoned, inFlight, issued, atStart, text, grown>>

\* await fetchData() in init
InitFetch ==
  /\ phase = "initFetch"
  /\ Start("init")
  /\ phase' = "running"

(***************************************************************************)
(* lookup, switch, clear                                                   *)
(***************************************************************************)
getData(act, dc, de) == IF act = "corner" THEN dc ELSE de

\* const [value1, value2] = x needs an iterable x
Iterable(x) == x.t \in {"array", "string"}
Nth(x, i) ==
  IF Len(x.v) < i THEN Undefined
  ELSE IF x.t = "string" THEN Str(<<x.v[i]>>) ELSE x.v[i]

\* lookup with a fault: the last entry of the key is shown
lookupLast(key, data, old) ==
  IF Throws(data)
    THEN [threw |-> TRUE, result |-> NoCard, status |-> old]
  ELSE LET entries == GetProp(data, key)
           e == IF entries.t = "array" /\ Len(entries.v) > 0
                  THEN entries.v[Len(entries.v)] ELSE First(entries)
       IN IF ~Truthy(entries) \/ GetProp(entries, K_length) = Num(0)
            THEN [threw |-> FALSE, result |-> NoCard,
                  status |-> updateStatus("No results", <<>>)]
          ELSE IF ~Iterable(e)
            THEN [threw |-> TRUE, result |-> NoCard, status |-> old]
          ELSE [threw |-> FALSE,
                result |-> Card(key, Nth(e, 1), Nth(e, 2)),
                status |-> updateStatus("Found", <<>>)]

\* lookup(key) on data: [threw, result, status]; the card is cleared first,
\* and a TypeError leaves the status as it is (old)
lookup(key, data, old) ==
  IF Throws(data)
    THEN [threw |-> TRUE, result |-> NoCard, status |-> old]
  ELSE LET entries == GetProp(data, key)
           e == First(entries)
       IN IF ~Truthy(entries) \/ GetProp(entries, K_length) = Num(0)
            THEN [threw |-> FALSE, result |-> NoCard,
                  status |-> updateStatus("No results", <<>>)]
          ELSE IF ~Iterable(e)
            THEN [threw |-> TRUE, result |-> NoCard, status |-> old]
          ELSE [threw |-> FALSE,
                result |-> Card(key, Nth(e, 1), Nth(e, 2)),
                status |-> updateStatus("Found", <<>>)]

\* the input listener: typed is the content of the text box
InputEvent(typed) ==
  /\ phase = "running"
  /\ LET up == ToUpperCase(typed)
         val == SubSeq(up, 1, IF Len(up) < 2 THEN Len(up) ELSE 2)
         r == lookup(val, getData(active, dataCorner, dataEdge), statusText)
     IN IF Len(val) = 2
          THEN /\ result' = r.result
               /\ statusText' = r.status
               /\ ev' = UiEv("lookup", val, r.threw)
          ELSE /\ UNCHANGED <<result, statusText>>
               /\ ev' = UiEv("input", val, FALSE)
  /\ UNCHANGED <<dataCorner, dataEdge, active, refreshDisabled, localStorage, clock,
                 ticks, phase, pc, net, cornerText, abandoned, inFlight, issued,
                 origin, atStart, text, grown>>

\* the click listener of switchBtn (and the Tab key)
SwitchClick ==
  /\ phase = "running"
  /\ active' = Other(active)
  /\ statusText' = updateStatus(IF Other(active) = "corner" THEN "Switched to corner"
                                                            ELSE "Switched to edge",
                                <<>>)
  /\ ev' = UiEv("switch", <<>>, FALSE)
  /\ UNCHANGED <<dataCorner, dataEdge, result, refreshDisabled, localStorage, clock,
                 ticks, phase, pc, net, cornerText, abandoned, inFlight, issued,
                 origin, atStart, text, grown>>

\* variant: clearing empties the two indices as well
clearAllData ==
  /\ phase = "running"
  /\ result' = NoCard
  /\ statusText' = updateStatus("Cleared", <<>>)
  /\ dataCorner' = Obj(<<>>)
  /\ dataEdge' = Obj(<<>>)
  /\ ev' = UiEv("clear", <<>>, FALSE)
  /\ UNCHANGED <<active, refreshDisabled, localStorage, clock,
                 ticks, phase, pc, net, cornerText, abandoned, inFlight, issued,
                 origin, atStart, text, grown>>

\* clearAll (the clear button and the space key)
clearAll ==
  /\ phase = "running"
  /\ result' = NoCard
  /\ statusText' = updateStatus("Cleared", <<>>)
  /\ ev' = UiEv("clear", <<>>, FALSE)
  /\ UNCHANGED <<dataCorner, dataEdge, active, refreshDisabled, localStorage, clock,
                 ticks, phase, pc, net, cornerText, abandoned, inFlight, issued,
                 origin, atStart, text, grown>>

\* time passes
Tick ==
  /\ phase = "running"
  /\ ticks < MaxTicks
  /\ ticks' = ticks + 1
  /\ clock' = clock + TickMs
  /\ UNCHANGED <<dataCorner, dataEdge, active, statusText, result, refreshDisabled,
                 localStorage, phase, pc, net, cornerText, abandoned, inFlight,
                 issued, origin, atStart, ev, text, grown>>

Next ==
  \/ InitLoad
  \/ InitFetch
  \/ RefreshClick
  \/ \E c \in Categories, o \in {"ok", "notok", "rejected"} : FetchSettle(c, o)
  \/ \E body \in CornerBodies : CornerTextRead(body)
  \/ CornerTextFail
  \/ \E body \in EdgeBodies, canStore \in BOOLEAN : EdgeTextRead(body, canStore)
  \/ EdgeTextFail
  \/ AbandonedSettle
  \/ \E typed \in TypedTexts : InputEvent(typed)
  \/ SwitchClick
  \/ clearAll
  \/ Tick

Spec == Init /\ [][Next]_vars

\* What the environment and the event loop owe to the program: init runs on
\* to its end, a retrieval that was issued settles, a body that is read
\* arrives or fails. These are the steps of Next that change phase, pc or
\* net while init or a refresh is under way, and one of them is possible in
\* each such state.
Resumed ==
  /\ phase \in {"boot", "initFetch"} \/ pc # "idle"
  /\ phase' \in {"boot", "initFetch", "running"}
  /\ pc' \in {"idle", "awaitAll", "awaitCornerText", "awaitEdgeText"}
  /\ net' \in [Categories -> {"none", "pending", "ok", "notok", "rejected"}]

SpecFair == Spec /\ WF_<<phase, pc, net>>(Resumed)

(***************************************************************************)
(* The parser on its own: a text grows by one character at a time          *)
(***************************************************************************)
MaxAppend == 5

ParseChars == {"a", TAB, LF, CR, SP}

\* the texts to start from
ParsePrefixes ==
  { <<>>,
    <<"a", "a", TAB, "v", LF>>,
    <<"n", SP, TAB, "A", "a", TAB, "w", CR, LF>>,
    <<"a", "a", TAB, "v", CR, "w">> }

InitParse ==
  /\ text \in ParsePrefixes
  /\ grown = 0
  /\ dataCorner = Obj(<<>>)
  /\ dataEdge = Obj(<<>>)
  /\ active = "corner"
  /\ statusText = <<>>
  /\ result = NoCard
  /\ refreshDisabled = FALSE
  /\ localStorage = NoItem
  /\ clock = StartClock
  /\ ticks = 0
  /\ phase = "parser"
  /\ pc = "idle"
  /\ net = NoNet
  /\ cornerText = <<>>
  /\ abandoned = 0
  /\ inFlight = 0
  /\ issued = "none"
  /\ origin = "none"
  /\ atStart = <<>>
  /\ ev = UiEv("none", <<>>, FALSE)

AppendChar(c) ==
  /\ phase = "parser"
  /\ grown < MaxAppend
  /\ text' = Append(text, c)
  /\ grown' = grown + 1
  /\ UNCHANGED <<dataCorner, dataEdge, active, statusText, result, refreshDisabled,
                 localStorage, clock, ticks, phase, pc, net, cornerText, abandoned,
                 inFlight, issued, origin, atStart, ev>>

NextParse == \E c \in ParseChars : AppendChar(c)

SpecParse == InitParse /\ [][NextParse]_vars

(***************************************************************************)
(* The cache on its own: saveCache and loadCache applied to the indices of *)
(* sample texts, with time passing between the saves                       *)
(***************************************************************************)
\* the texts whose indices are saved
SaveTexts ==
  ParsePrefixes
    \cup { <<"a", "a", TAB, "v", LF, "b", "b", TAB, "w", LF, "a", "a", TAB, "x", LF>> }

InitCache ==
  /\ text = <<>>
  /\ grown = 0
  /\ dataCorner = Obj(<<>>)
  /\ dataEdge = Obj(<<>>)
  /\ active = "corner"
  /\ statusText = <<>>
  /\ result = NoCard
  /\ refreshDisabled = FALSE
  /\ localStorage = NoItem
  /\ clock = StartClock
  /\ ticks = 0
  /\ phase = "cache"
  /\ pc = "idle"
  /\ net = NoNet
  /\ cornerText = <<>>
  /\ abandoned = 0
  /\ inFlight = 0
  /\ issued = "none"
  /\ origin = "none"
  /\ atStart = <<>>
  /\ ev = UiEv("none", <<>>, FALSE)

\* saveCache(parseTSV(a), parseTSV(b)): setItem replaces the item
CacheSave(a, b) ==
  /\ phase = "cache"
  /\ ev.op # "save"
  /\ localStorage' = saveCache(parseTSV(a), parseTSV(b), clock)
  /\ ev' = Ev("save", NoNet, "stored", <<a, b>>,
              <<dataCorner, dataEdge, localStorage>>, clock, <<>>, FALSE)
  /\ UNCHANGED <<dataCorner, dataEdge, active, statusText, result, refreshDisabled,
                 clock, ticks, phase, pc, net, cornerText, abandoned, inFlight,
                 issued, origin, atStart, text, grown>>

\* loadCache() and the adoption of what it returned
CacheLoad ==
  /\ phase = "cache"
  /\ ev.op = "save"
  /\ LET cache == loadCache(localStorage)
     IN /\ Truthy(cache)
        /\ dataCorner' = GetProp(cache, K_corner)
        /\ dataEdge' = GetProp(cache, K_edge)
  /\ ev' = [ev EXCEPT !.op = "load"]
  /\ UNCHANGED <<active, statusText, result, refreshDisabled, localStorage, clock,
                 ticks, phase, pc, net, cornerText, abandoned, inFlight, issued,
                 origin, atStart, text, grown>>

CacheTick ==
  /\ phase = "cache"
  /\ ticks < MaxTicks
  /\ ticks' = ticks + 1
  /\ clock' = clock + TickMs
  /\ UNCHANGED <<dataCorner, dataEdge, active, statusText, result, refreshDisabled,
                 localStorage, phase, pc, net, cornerText, abandoned, inFlight,
                 issued, origin, atStart, ev, text, grown>>

NextCache ==
  \/ \E a \in SaveTexts, b \in SaveTexts : CacheSave(a, b)
  \/ CacheLoad
  \/ CacheTick

SpecCache == InitCache /\ [][NextCache]_vars

(***************************************************************************)
(* Properties                                                              *)
(***************************************************************************)
\* the value loadCache gives for the stored item
Cached == loadCache(localStorage)

\* x has the four fields of a snapshot
IsSnapshot(x) ==
  /\ x.t = "object"
  /\ {K_time, K_timeText, K_corner, K_edge} \subseteq Keys(x)
  /\ GetProp(x, K_time).t = "number"
  /\ GetProp(x, K_timeText).t = "string"
  /\ GetProp(x, K_corner).t = "object"
  /\ GetProp(x, K_edge).t = "object"

LastPrefix == <<"L", "a", "s", "t", ":", " ">>

\* fetchData has just returned
Returned == ev.op = "fetchData"

\* ... after a retrieval gave a non-success response or a transport failure
RetrievalFailed ==
  Returned /\ (ev.corner \in {"notok", "rejected"} \/ ev.edge \in {"notok", "rejected"})

\* C1: when a refresh fails because a retrieval returned a non-success
\* response or a transport failure, and the cache store holds a snapshot,
\* the refresh ends with both indices equal to the snapshot's indices and
\* with the status "Offline - using cache" and the snapshot's display time.
C1_OfflineAdoptsSnapshot ==
  (RetrievalFailed /\ IsSnapshot(Cached)) =>
    /\ dataCorner = GetProp(Cached, K_corner)
    /\ dataEdge = GetProp(Cached, K_edge)
    /\ statusText = <<"Offline - using cache", "*",
                      LastPrefix \o GetProp(Cached, K_timeText).v>>

\* one retrieval was rejected while the other was outstanding, with a
\* snapshot whose two indices differ
C1_Witness ==
  /\ RetrievalFailed
  /\ ev.corner = "rejected"
  /\ ev.edge = "pending"
  /\ IsSnapshot(Cached)
  /\ GetProp(Cached, K_corner) # GetProp(Cached, K_edge)
  /\ statusText[1] = "Offline - using cache"

\* neither retrieval succeeded
NoRetrievalOk ==
  /\ Returned
  /\ ev.corner \in {"notok", "rejected", "pending"}
  /\ ev.edge \in {"notok", "rejected", "pending"}

\* C2: if both retrievals fail and nothing is persisted, the refresh ends
\* with the status "No data available", both indices as they were when the
\* refresh started, and the cache store still empty.
C2_NoDataLeavesIndices ==
  (NoRetrievalOk /\ ev.before[3] = NoItem) =>
    /\ statusText = <<"No data available">>
    /\ dataCorner = ev.before[1]
    /\ dataEdge = ev.before[2]
    /\ localStorage = NoItem

\* both retrievals failed with nothing persisted while the indices held data
C2_Witness ==
  /\ NoRetrievalOk
  /\ ev.corner = "notok"
  /\ ev.edge = "rejected"
  /\ ev.before[3] = NoItem
  /\ ev.before[1] # Obj(<<>>)
  /\ statusText = <<"No data available">>

\* C3: at startup a persisted snapshot, whatever its age, becomes the active
\* indices with the status "Loaded from cache" and its display time, and no
\* retrieval is issued until the user asks for a refresh; with nothing
\* persisted the status becomes "No cache - fetching..." and the refresh
\* protocol is run.
C3_StartupUsesCache ==
  /\ (ev.op = "init" /\ IsSnapshot(Cached)) =>
       /\ dataCorner = GetProp(Cached, K_corner)
       /\ dataEdge = GetProp(Cached, K_edge)
       /\ statusText = <<"Loaded from cache", "*",
                         LastPrefix \o GetProp(Cached, K_timeText).v>>
       /\ phase = "running"
  /\ (origin = "cache") =>
       /\ issued \in {"none", "user"}
       /\ (issued = "none") => (net = NoNet /\ pc = "idle" /\ inFlight = 0)
  /\ (ev.op = "init" /\ localStorage = NoItem) =>
       /\ statusText = <<"No cache - fetching...">>
       /\ phase = "initFetch"
  /\ (origin = "fetch" /\ phase = "running") => issued # "none"

\* init has loaded a snapshot older than CACHE_TIME
C3_Witness ==
  /\ ev.op = "init"
  /\ IsSnapshot(Cached)
  /\ clock - GetProp(Cached, K_time).v[1] > CACHE_TIME
  /\ statusText[1] = "Loaded from cache"
  /\ dataCorner # Obj(<<>>)

\* both responses were ok and both bodies were read
BothSucceeded == Returned /\ ev.corner = "ok" /\ ev.edge = "ok"

C5_UpdatedShowsSavedTime ==
  (Returned /\ statusText[1] = "Updated") =>
    /\ Len(statusText) = 3
    /\ IsSnapshot(Cached)
    /\ statusText[3] = LastPrefix \o GetProp(Cached, K_timeText).v
    /\ GetProp(Cached, K_time) = Num(ev.at)
    /\ localStorage = saveCache(parseTSV(ev.texts[1]), parseTSV(ev.texts[2]), ev.at)

\* the refresh replaced a snapshot with another display time
C5_Witness ==
  /\ Returned
  /\ statusText[1] = "Updated"
  /\ ev.before[3].present
  /\ IsSnapshot(loadCache(ev.before[3]))
  /\ GetProp(loadCache(ev.before[3]), K_timeText) # GetProp(Cached, K_timeText)

\* an entry: a note, possibly empty, and a non-empty value
EntryOK(e) ==
  /\ e.t = "array"
  /\ Len(e.v) = 2
  /\ e.v[1].t = "string"
  /\ e.v[2].t = "string"
  /\ e.v[2].v # <<>>

\* the Index invariants: keys of two upper-case characters, entries as above
IndexOK(x) ==
  /\ x.t = "object"
  /\ \A i \in 1..Len(x.v) :
       /\ Len(x.v[i].k) = 2
       /\ ToUpperCase(x.v[i].k) = x.v[i].k
       /\ x.v[i].v.t = "array"
       /\ \A j \in 1..Len(x.v[i].v.v) : EntryOK(x.v[i].v.v[j])

\* the stored item is a snapshot with two indices
ValidSnapshot(ls) ==
  /\ ls.present
  /\ JSONParse(ls.raw).ok
  /\ IsSnapshot(JSONParse(ls.raw).val)
  /\ IndexOK(GetProp(JSONParse(ls.raw).val, K_corner))
  /\ IndexOK(GetProp(JSONParse(ls.raw).val, K_edge))

\* C6: load() returns absent whenever nothing is persisted or the persisted
\* payload is no valid snapshot; at startup and in a failed refresh such a
\* payload is handled as "no cache", and the indices are never set from it.
C6_CorruptIsNoCache ==
  /\ (ev.op = "init" /\ ~ValidSnapshot(localStorage)) =>
       /\ Cached = Null
       /\ statusText = <<"No cache - fetching...">>
       /\ dataCorner = Obj(<<>>)
       /\ dataEdge = Obj(<<>>)
  /\ (Returned /\ ev.save = "-" /\ ~ValidSnapshot(localStorage)) =>
       /\ Cached = Null
       /\ statusText = <<"No data available">>
       /\ dataCorner = ev.before[1]
       /\ dataEdge = ev.before[2]

\* C7: no failure of a retrieval or of parsing leaves a refresh: every
\* refresh that returns, whatever the outcomes of the retrievals, returns
\* with the status "Updated", "Offline - using cache" or "No data
\* available", and without an error.
C7_RefreshEndsInStatus ==
  Returned =>
    /\ ~ev.threw
    /\ statusText[1] \in {"Updated", "Offline - using cache", "No data available"}
    /\ pc = "idle"

\* a non-success response and a transport failure, with nothing to fall
\* back to
C7_Witness ==
  /\ Returned
  /\ ev.corner = "notok"
  /\ ev.edge = "rejected"
  /\ Cached = Null
  /\ statusText = <<"No data available">>

\* C8: in every reachable state both active indices satisfy the Index
\* invariants.
C8_IndicesWellFormed == IndexOK(dataCorner) /\ IndexOK(dataEdge)

(***************************************************************************)
(* The index a text stands for, line by line                               *)
(***************************************************************************)
\* the j-th smallest element of a set of numbers
NthOf(S, j) == CHOOSE p \in S : Cardinality({q \in S : q < p}) = j - 1

\* the pieces of s between the occurrences of sep
Pieces(s, sep) ==
  LET at == {i \in 1..Len(s) : s[i] = sep}
      n == Cardinality(at)
      lo(j) == IF j = 1 THEN 1 ELSE NthOf(at, j - 1) + 1
      hi(j) == IF j = n + 1 THEN Len(s) ELSE NthOf(at, j) - 1
  IN [j \in 1..(n + 1) |-> SubSeq(s, lo(j), hi(j))]

RECURSIVE Trimmed(_)
Trimmed(s) ==
  IF s = <<>> THEN s
  ELSE IF IsSpace(s[1]) THEN Trimmed(Tail(s))
  ELSE IF IsSpace(s[Len(s)]) THEN Trimmed(SubSeq(s, 1, Len(s) - 1))
  ELSE s

\* the candidate of a line: none for a blank line and for fewer than 2 fields
Candidate(line) ==
  LET f == Pieces(line, TAB)
  IN IF Trimmed(line) = <<>> \/ Len(f) < 2
       THEN [some |-> FALSE, note |-> <<>>, key |-> <<>>, value |-> <<>>]
     ELSE IF Len(f) >= 3
       THEN [some |-> TRUE, note |-> Trimmed(f[1]),
             key |-> ToUpperCase(Trimmed(f[2])), value |-> Trimmed(f[3])]
     ELSE [some |-> TRUE, note |-> <<>>,
           key |-> ToUpperCase(Trimmed(f[1])), value |-> Trimmed(f[2])]

\* the index of a sequence of lines: under each key the <<note, value>> of
\* the lines that pass the gate, in the order of the lines
IndexOfLines(lines) ==
  LET c == [i \in 1..Len(lines) |-> Candidate(lines[i])]
      pass == {i \in 1..Len(lines) :
                 c[i].some /\ Len(c[i].key) = 2 /\ c[i].value # <<>>}
      of(k) == {i \in pass : c[i].key = k}
  IN [k \in {c[i].key : i \in pass} |->
        [j \in 1..Cardinality(of(k)) |->
           <<c[NthOf(of(k), j)].note, c[NthOf(of(k), j)].value>>]]

\* the lines as they are in the text
ReferenceIndex(t) == IndexOfLines(Pieces(t, LF))

\* the lines with every carriage return taken out
ReferenceIndexNoCR(t) ==
  LET lines == Pieces(t, LF)
  IN IndexOfLines([i \in 1..Len(lines) |-> SelectSeq(lines[i], LAMBDA ch : ch # CR)])

\* what parseTSV returned, as a function from keys to sequences of pairs
AsIndex(out) ==
  [k \in Keys(out) |->
     [j \in 1..Len(GetProp(out, k).v) |->
        <<GetProp(out, k).v[j].v[1].v, GetProp(out, k).v[j].v[2].v>>]]

\* C9 as stated: parse(text) is the index built line by line from the
\* tab-separated, trimmed fields of each line of the text.
C9_AsStated == AsIndex(parseTSV(text)) = ReferenceIndex(text)

\* C9: parse(text) is the index built line by line, in input order, from the
\* fields of each line after every carriage return of the line has been
\* removed: nothing for a blank line or fewer than 2 fields, (note, key,
\* value) from fields 0, 1, 2 of 3 or more, ("", key, value) from 2 fields,
\* appended iff the key has length 2 and the value is not empty.
C9_ParseIsReference == AsIndex(parseTSV(text)) = ReferenceIndexNoCR(text)

\* a key with two entries, one of them from a line with a carriage return
\* inside its key
C9_Witness ==
  /\ ReferenceIndexNoCR(text) # ReferenceIndex(text)
  /\ \E k \in Keys(parseTSV(text)) : Len(GetProp(parseTSV(text), k).v) >= 2

\* x has the shape of an index: sequences of pairs of strings under its keys
IndexShaped(x) ==
  /\ x.t = "object"
  /\ \A i \in 1..Len(x.v) :
       /\ x.v[i].v.t = "array"
       /\ \A j \in 1..Len(x.v[i].v.v) :
            /\ x.v[i].v.v[j].t = "array"
            /\ Len(x.v[i].v.v[j].v) = 2
            /\ x.v[i].v.v[j].v[1].t = "string"
            /\ x.v[i].v.v[j].v[2].t = "string"

ActiveData == getData(active, dataCorner, dataEdge)

\* C10: lookup(key) on the index of the active category gives the status
\* "No results" and no result when the key is absent or has no entries, and
\* otherwise the status "Found" and the first entry of the key.
C10_LookupFirstEntry ==
  (ev.op = "lookup" /\ IndexShaped(ActiveData)) =>
    IF ev.key \notin Keys(ActiveData) \/ GetProp(ActiveData, ev.key).v = <<>>
      THEN statusText = <<"No results">> /\ result = NoCard /\ ~ev.threw
      ELSE LET e == GetProp(ActiveData, ev.key).v[1]
           IN /\ statusText = <<"Found">>
              /\ ~ev.threw
              /\ result = <<Element("card-key", ev.key)>>
                            \o (IF e.v[1].v # <<>>
                                  THEN <<Element("card-note", e.v[1].v)>> ELSE <<>>)
                            \o <<Element("card-value2", e.v[2].v)>>

\* a key with two different entries was looked up
C10_Witness ==
  /\ ev.op = "lookup"
  /\ IndexShaped(ActiveData)
  /\ ev.key \in Keys(ActiveData)
  /\ Len(GetProp(ActiveData, ev.key).v) >= 2
  /\ GetProp(ActiveData, ev.key).v[1] # GetProp(ActiveData, ev.key).v[2]
  /\ statusText = <<"Found">>

\* C11: a save of two indices followed by a load gives back a snapshot whose
\* corner and edge indices are equal to the two saved, and the load after a
\* later save gives the later save's data only: nothing of the item that was
\* there before remains
C11_SavedIsLoaded ==
  (phase = "cache" /\ ev.op \in {"save", "load"}) =>
    /\ IsSnapshot(Cached)
    /\ GetProp(Cached, K_corner) = parseTSV(ev.texts[1])
    /\ GetProp(Cached, K_edge) = parseTSV(ev.texts[2])
    /\ GetProp(Cached, K_time) = Num(ev.at)
    /\ Keys(Cached) = {K_time, K_timeText, K_corner, K_edge}
    /\ ev.op = "load" =>
         /\ dataCorner = parseTSV(ev.texts[1])
         /\ dataEdge = parseTSV(ev.texts[2])

\* a second save of other indices, with two keys and an empty note, was loaded
C11_Witness ==
  /\ phase = "cache"
  /\ ev.op = "load"
  /\ ev.before[3].present
  /\ GetProp(loadCache(ev.before[3]), K_corner) # dataCorner
  /\ GetProp(loadCache(ev.before[3]), K_edge) # dataEdge
  /\ Keys(dataCorner) = {<<"A", "A">>, <<"B", "B">>}
  /\ Len(GetProp(dataCorner, <<"A", "A">>).v) = 2
  /\ First(First(GetProp(dataCorner, <<"A", "A">>))) = Str(<<>>)
  /\ dataEdge # dataCorner

\* C12 as stated: a refresh enters its failure handling and re-enables the
\* refresh trigger only when both retrievals have settled, also when one of
\* them fails with a transport failure while the other is outstanding.
C12_AsStated ==
  /\ Returned => (ev.corner # "pending" /\ ev.edge # "pending")
  /\ (phase = "running" /\ ~refreshDisabled) => abandoned = 0

\* C12: while fetchData waits for the two retrievals the trigger is disabled
\* and the refresh has not ended, also after one of them gave a response
\* that is not ok; fetchData returns with a retrieval still outstanding only
\* when the other one was rejected (transport failure), and only then is the
\* trigger enabled with a retrieval outstanding.
C12_JoinUntilRejection ==
  /\ pc = "awaitAll" => (refreshDisabled /\ inFlight = 1 /\ ev.op # "fetchData")
  /\ Returned =>
       /\ ev.corner = "pending" => ev.edge = "rejected"
       /\ ev.edge = "pending" => ev.corner = "rejected"
  /\ (Returned /\ ev.corner # "rejected" /\ ev.edge # "rejected") =>
       (ev.corner \notin {"none", "pending"} /\ ev.edge \notin {"none", "pending"})

\* the edge retrieval was rejected while the corner retrieval was
\* outstanding: the refresh has ended and the trigger is enabled
C12_Witness ==
  /\ Returned
  /\ ev.edge = "rejected"
  /\ ev.corner = "pending"
  /\ abandoned > 0
  /\ pc = "idle"
  /\ ~refreshDisabled

\* a response that is not ok arrived and fetchData goes on waiting
C12_StillWaiting ==
  /\ pc = "awaitAll"
  /\ net.corner = "notok"
  /\ net.edge = "pending"
  /\ refreshDisabled

\* C13: at most one refresh is in progress at any time: from the start of a
\* refresh (at startup without cache, or by the user) to its end the refresh
\* trigger is disabled, so that no second call of fetchData is running.
C13_OneRefreshAtATime ==
  /\ inFlight \in {0, 1}
  /\ inFlight = 1 <=> pc # "idle"
  /\ pc # "idle" => refreshDisabled
  /\ ev.op = "start" => (inFlight = 1 /\ refreshDisabled)

\* a refresh of the user is in progress and the user went on using the page
C13_Witness ==
  /\ pc = "awaitEdgeText"
  /\ issued = "user"
  /\ refreshDisabled
  /\ inFlight = 1
  /\ ev.op = "switch"

\* C14: every refresh that starts re-enables the refresh trigger in the end,
\* whichever way it ends, provided each retrieval that was issued settles;
\* and whenever no refresh is in progress the trigger is enabled.
C14_TriggerEnabledAgain ==
  /\ [](pc = "idle" => ~refreshDisabled)
  /\ [](pc = "awaitAll" => \E c \in Categories : net[c] = "pending")
  /\ (refreshDisabled ~> (~refreshDisabled /\ pc = "idle"))

\* a refresh ended in the fallback branch, after the body of a response
\* could not be read, and the trigger is enabled
C14_Witness ==
  /\ Returned
  /\ ev.corner = "bodyfail"
  /\ statusText[1] = "Offline - using cache"
  /\ pc = "idle"
  /\ ~refreshDisabled

\* C15: the persisted item changes only in the step that ends a refresh in
\* which both retrievals succeeded and both bodies were read and parsed, and
\* it then is the snapshot of the two parsed indices; startup, a failed
\* refresh, lookup, switch and clear neither write nor remove the item.
C15_OnlySuccessWrites ==
  [][localStorage' # localStorage =>
       /\ ev'.op = "fetchData"
       /\ ev'.corner = "ok"
       /\ ev'.edge = "ok"
       /\ ev'.save = "stored"
       /\ localStorage' = saveCache(parseTSV(ev'.texts[1]), parseTSV(ev'.texts[2]), ev'.at)
    ]_vars

\* a successful refresh has overwritten the snapshot that was stored before
C15_Witness ==
  /\ Returned
  /\ ev.save = "stored"
  /\ ev.before[3].present
  /\ IsSnapshot(loadCache(ev.before[3]))
  /\ localStorage # ev.before[3]
  /\ IsSnapshot(Cached)

\* the lines with a carriage return removed where it ends the line
ReferenceIndexLineEndCR(t) ==
  LET lines == Pieces(t, LF)
      cut(l) == IF l # <<>> /\ l[Len(l)] = CR THEN SubSeq(l, 1, Len(l) - 1) ELSE l
  IN IndexOfLines([i \in 1..Len(lines) |-> cut(lines[i])])

HasCR(s) == \E i \in 1..Len(s) : s[i] = CR

\* C16 as stated: a carriage return is removed only where it ends a line; one
\* inside a line stays in its field, so that a key field with a carriage
\* return between two letters has length 3 and gives no entry.
C16_AsStated == AsIndex(parseTSV(text)) = ReferenceIndexLineEndCR(text)

\* C16: every carriage return of a line is removed before the line is split
\* into fields, wherever it stands: the parse of a text is the parse of the
\* text without its carriage returns, and no key, note or value of the index
\* holds a carriage return.
C16_EveryCRStripped ==
  /\ parseTSV(text) = parseTSV(StripCR(text))
  /\ LET idx == AsIndex(parseTSV(text))
     IN \A k \in DOMAIN idx :
          /\ ~HasCR(k)
          /\ \A j \in DOMAIN idx[k] : ~HasCR(idx[k][j][1]) /\ ~HasCR(idx[k][j][2])

\* a key field with a carriage return between its two letters gave an entry
C16_Witness ==
  /\ Len(text) >= 5
  /\ SubSeq(text, 1, 5) = <<"a", CR, "a", TAB, "a">>
  /\ <<"A", "A">> \in Keys(parseTSV(text))
  /\ AsIndex(parseTSV(text)) # ReferenceIndexLineEndCR(text)

\* the two indices of one acquisition: the initial empty indices, the parse
\* of the two bodies of one refresh, or the corner and edge of one payload
\* that was in localStorage when the page started (a snapshot an earlier
\* refresh stored is the pair of that refresh)
PairOf(item) ==
  LET cache == loadCache(item)
  IN <<GetProp(cache, K_corner), GetProp(cache, K_edge)>>

Acquisitions ==
  {<<Obj(<<>>), Obj(<<>>)>>}
    \cup {<<parseTSV(c), parseTSV(e)>> : c \in CornerBodies, e \in EdgeBodies}
    \cup {PairOf(item) : item \in {i \in OldSnapshots \cup CorruptItems :
                                     Truthy(loadCache(i))}}

\* C17: in every state, between the awaits of a refresh in progress as well,
\* the two active indices are the two indices of one acquisition: a lookup
\* never sees one index of a refresh together with an older other index.
C17_SameAcquisition == <<dataCorner, dataEdge>> \in Acquisitions

\* a lookup ran while a refresh had read the corner body and awaited the
\* edge body: the indices are still the pair from before the refresh
C17_Witness ==
  /\ pc = "awaitEdgeText"
  /\ ev.op = "lookup"
  /\ ~ev.threw
  /\ Keys(dataCorner) # {}
  /\ dataCorner # parseTSV(cornerText)
  /\ <<dataCorner, dataEdge>> = <<atStart[1], atStart[2]>>

\* a step of lookup (the input listener) or of clear: the last operation is
\* one of ops and the step set the result, the status or the operation
UiStep(ops) ==
  /\ ev'.op \in ops
  /\ ev' # ev \/ result' # result \/ statusText' # statusText

\* the indices, the persisted item and the state of a refresh stay
RefreshStateKept ==
  UNCHANGED <<dataCorner, dataEdge, localStorage, refreshDisabled, pc, net,
              cornerText, inFlight, abandoned, clock>>

C19_MemoryIsSnapshot ==
  (phase = "running" /\ pc = "idle" /\ IsSnapshot(Cached)) =>
    /\ dataCorner = GetProp(Cached, K_corner)
    /\ dataEdge = GetProp(Cached, K_edge)

\* both retrievals succeeded, the snapshot could not be stored: the indices
\* are those of the older snapshot that is still persisted, not the parse of
\* the bodies
C19_Witness ==
  /\ Returned
  /\ pc = "idle"
  /\ ev.save = "quota"
  /\ IsSnapshot(Cached)
  /\ dataCorner = GetProp(Cached, K_corner)
  /\ dataCorner # parseTSV(ev.texts[1])
  /\ dataEdge = GetProp(Cached, K_edge)

\* C20: whenever a refresh ends with the status "No data available", both
\* active indices are empty: the status is never shown while the program
\* holds data, also when the retrievals succeeded and the snapshot could not
\* be stored.
C20_NoDataMeansEmpty ==
  (Returned /\ statusText = <<"No data available">>) =>
    /\ dataCorner = Obj(<<>>)
    /\ dataEdge = Obj(<<>>)

====
